---- MODULE Spec2Model ----
(***************************************************************************)
(* Contributor data enrichment of the pyOpenSci home page:                 *)
(*   core/utils.py  fetch_contributors_yaml, parse_contributor_date,       *)
(*                  clean_contributor_data, get_recent_contributors,       *)
(*                  generate_github_avatar_url, generate_github_profile_url *)
(*   core/views.py  home                                                   *)
(* Python values are tagged records [t |-> <type>, v |-> <payload>]; a text *)
(* is a sequence of atoms in which the atom " " is one whitespace           *)
(* character; a dictionary is a function over Fields whose missing keys     *)
(* hold Absent.                                                            *)
(***************************************************************************)
EXTENDS Integers, Sequences, FiniteSets, TLC

\* net, pnet: the remote ends that serve contributors.yml and packages.yml
\* db: the pages in the database
\* op, ret, opened, log: the latest call, what it returned or raised, the
\*   URLs it opened and the logger records it made
\* inner: what the functions called by the latest view returned to it
\* resp: the rest of the latest view's response (status, other context)
VARIABLES net, pnet, db, op, ret, opened, log, inner, resp

vars == <<net, pnet, db, op, ret, opened, log, inner, resp>>

(* ------------------------------ bounds -------------------------------- *)

\* longest document (list of entries) the remote end serves
MaxLen == 2
\* largest explicit count argument tried besides the default
MaxCount == 2

\* longest packages document the remote end serves
MaxPkgs == 4

(* --------------------------- Python values ---------------------------- *)

Absent == [t |-> "absent"]
NoneV == [t |-> "none"]
StrV(s) == [t |-> "str", v |-> s]
IntV(i) == [t |-> "int", v |-> i]
BoolV(b) == [t |-> "bool", v |-> b]
ListV(l) == [t |-> "list", v |-> l]
DateV(d) == [t |-> "date", v |-> d]
DictV(d) == [t |-> "dict", v |-> d]

\* dict.get(key): a missing key reads as None
Get(val) == IF val = Absent THEN NoneV ELSE val

\* Python truth value of an object
Truthy(val) ==
    CASE val.t = "absent" -> FALSE
      [] val.t = "none" -> FALSE
      [] val.t = "str" -> Len(val.v) > 0
      [] val.t = "int" -> val.v # 0
      [] val.t = "bool" -> val.v
      [] val.t = "list" -> Len(val.v) > 0
      [] OTHER -> TRUE

\* str(object), also what an f-string puts in place of {object}
PyStr(val) ==
    CASE val.t = "str" -> val.v
      [] val.t = "int" -> <<ToString(val.v)>>
      [] val.t = "none" -> <<"None">>
      [] val.t = "bool" -> IF val.v THEN <<"True">> ELSE <<"False">>
      [] OTHER -> <<"<object>">>

RECURSIVE LStrip(_)
LStrip(s) == IF s # <<>> /\ Head(s) = " " THEN LStrip(Tail(s)) ELSE s

RECURSIVE RStrip(_)
RStrip(s) ==
    IF s # <<>> /\ s[Len(s)] = " " THEN RStrip(SubSeq(s, 1, Len(s) - 1)) ELSE s

\* str.strip()
Strip(s) == RStrip(LStrip(s))

\* "phrase in message" for a message kept as a sequence of phrases
Contains(msg, phrase) == \E i \in 1..Len(msg) : msg[i] = phrase

(* ----------------------- fetch_contributors_yaml ---------------------- *)

NoURL == "None"
DefaultURL ==
    "https://raw.githubusercontent.com/pyOpenSci/pyopensci.github.io/main/_data/contributors.yml"
CustomURL == "https://example.com/custom.yml"

Returned(value, urls, logs) ==
    [kind |-> "return", value |-> value, exc |-> "", msg |-> <<>>,
     opened |-> urls, log |-> logs]

Raised(exc, msg, urls, logs) ==
    [kind |-> "raise", value |-> <<>>, exc |-> exc, msg |-> msg,
     opened |-> urls, log |-> logs]

LogRec(level, fn) == [level |-> level, fn |-> fn]

\* url is None -> the default pyOpenSci URL
EffectiveURL(url) == IF url = NoURL THEN DefaultURL ELSE url

\* a fetch that tries a second time when the first urlopen fails
UrlsOpenedRetry(url, n) ==
    IF n.open = "ok" THEN <<EffectiveURL(url)>>
    ELSE <<EffectiveURL(url), EffectiveURL(url)>>

\* the urlopen calls one fetch makes
UrlsOpened(url, n) == <<EffectiveURL(url)>>

\* isinstance(contributors, (list, dict))
IsListOrDict(doc) == doc.kind \in {"list", "mapping"}

\* isinstance(contributors, list)
IsList(doc) == doc.kind = "list"

NotAListMsg == <<"YAML data ", "should be a list", " of contributors">>

NetworkErrorMsg(e) == <<"Network error", ": ", e>>

UnexpectedErrorMsg(e) == <<"Unexpected error", ": ">> \o e

\* a YAMLError that falls through to "except Exception"
YAMLErrorUnclassified(e) == UnexpectedErrorMsg(<<e>>)

YAMLErrorMsg(e) == <<"YAML parsing error", ": ", e>>

\* a fetch that drops the entries that are no dictionaries
FetchedDictsOnly(doc) == SelectSeq(doc.items, LAMBDA x : x.t = "dict")

\* return contributors: the parsed list as it is
FetchedValue(doc) == doc.items

\* n is the remote end: n.open is what urlopen does, n.doc what
\* read().decode() and yaml.safe_load make of the body
FetchContributorsYaml(url, n) ==
    LET urls == UrlsOpened(url, n)
        fn == "fetch_contributors_yaml"
    IN  CASE n.open = "URLError" ->
               Raised("ContributorDataError", NetworkErrorMsg("urlopen error"),
                      urls, <<LogRec("error", fn)>>)
          [] n.open = "ValueError" ->
               Raised("ContributorDataError",
                      UnexpectedErrorMsg(<<"unknown url type">>),
                      urls, <<LogRec("error", fn)>>)
          [] n.open = "ok" /\ n.doc.kind = "undecodable" ->
               Raised("ContributorDataError",
                      UnexpectedErrorMsg(<<"codec can't decode">>),
                      urls, <<LogRec("error", fn)>>)
          [] n.open = "ok" /\ n.doc.kind = "YAMLError" ->
               Raised("ContributorDataError", YAMLErrorMsg("while parsing"),
                      urls, <<LogRec("error", fn)>>)
          [] n.open = "ok" /\ n.doc.kind \notin {"undecodable", "YAMLError"}
                /\ ~IsList(n.doc) ->
               \* the ContributorDataError of line 51 is raised inside the try
               \* and caught by "except Exception"
               Raised("ContributorDataError", UnexpectedErrorMsg(NotAListMsg),
                      urls, <<LogRec("error", fn)>>)
          [] OTHER ->
               Returned(FetchedValue(n.doc), urls, <<LogRec("info", fn)>>)

(* ----------------------- parse_contributor_date ----------------------- *)

\* a date is <<year, month, day>>; datetime.min.date() is 0001-01-01
MinDate == <<1, 1, 1>>

\* the digit groups the date texts are written with, and their values
AtomVal(a) ==
    CASE a = "0000" -> 0
      [] a = "0001" -> 1
      [] a = "2024" -> 2024
      [] a = "01" -> 1
      [] a = "02" -> 2
      [] a = "13" -> 13
      [] a = "30" -> 30
      [] OTHER -> -1

FourDigits(a) == a \in {"0000", "0001", "2024"}
TwoDigits(a) == a \in {"01", "02", "13", "30"}

LeapYear(y) == (y % 4 = 0 /\ y % 100 # 0) \/ y % 400 = 0

DaysInMonth(y, m) ==
    CASE m = 2 -> IF LeapYear(y) THEN 29 ELSE 28
      [] m \in {4, 6, 9, 11} -> 30
      [] OTHER -> 31

NoDate == <<>>

\* datetime.strptime(text, fmt) for a format of three fields around one
\* separator: %Y is four digits, %m 1..12 and %d 1..31 in at most two digits,
\* and the date must exist; NoDate stands for ValueError
Strptime(text, sep, iy, im, id) ==
    IF /\ Len(text) = 5
       /\ text[2] = sep /\ text[4] = sep
       /\ FourDigits(text[iy]) /\ TwoDigits(text[im]) /\ TwoDigits(text[id])
    THEN LET y == AtomVal(text[iy])
             m == AtomVal(text[im])
             d == AtomVal(text[id])
         IN  IF y >= 1 /\ m \in 1..12 /\ d >= 1 /\ d <= DaysInMonth(y, m)
             THEN <<y, m, d>>
             ELSE NoDate
    ELSE NoDate

\* the four formats, tried in order; NoDate stands for None
ParseContributorDate(val) ==
    IF ~Truthy(val) THEN NoDate
    ELSE LET text == Strip(PyStr(val))
             f1 == Strptime(text, "-", 1, 3, 5)
             f2 == Strptime(text, "/", 1, 3, 5)
             f3 == Strptime(text, "/", 5, 1, 3)
             f4 == Strptime(text, "/", 5, 3, 1)
         IN  CASE f1 # NoDate -> f1
               [] f2 # NoDate -> f2
               [] f3 # NoDate -> f3
               [] f4 # NoDate -> f4
               [] OTHER -> NoDate

(* ----------------------- clean_contributor_data ----------------------- *)

StringFields ==
    {"name", "bio", "organization", "location", "email",
     "twitter", "mastodon", "orcidid", "website"}
IntFields == {"github_image_id", "sort"}
BooleanFields ==
    {"deia_advisory", "editorial_board", "emeritus_editor",
     "advisory", "emeritus_advisory", "board"}
ListFields ==
    {"title", "partners", "contributor_type", "packages_eic",
     "packages_editor", "packages_submitted", "packages_reviewed"}
Fields ==
    {"github_username", "date_added"} \cup StringFields \cup IntFields
        \cup BooleanFields \cup ListFields

\* if value and str(value).strip(): cleaned[field] = str(value).strip()
CleanString(val) ==
    IF Truthy(Get(val)) /\ Strip(PyStr(Get(val))) # <<>>
    THEN StrV(Strip(PyStr(Get(val))))
    ELSE Absent

\* int(value) succeeds
IntOk(val) ==
    \/ val.t \in {"int", "bool"}
    \/ val.t = "str" /\ Len(Strip(val.v)) = 1 /\ AtomVal(Strip(val.v)[1]) >= 0

IntOf(val) ==
    CASE val.t = "int" -> val.v
      [] val.t = "bool" -> IF val.v THEN 1 ELSE 0
      [] OTHER -> AtomVal(Strip(val.v)[1])

\* if value is not None: try cleaned[field] = int(value)
CleanInt(val) ==
    IF Get(val) # NoneV /\ IntOk(Get(val)) THEN IntV(IntOf(Get(val))) ELSE Absent

\* if date_added: parsed = parse(...); if parsed: cleaned = parsed.date()
CleanDate(val) ==
    IF Truthy(Get(val)) /\ ParseContributorDate(Get(val)) # NoDate
    THEN DateV(ParseContributorDate(Get(val)))
    ELSE Absent

\* if value is not None: cleaned[field] = bool(value)
CleanBool(val) == IF Get(val) # NoneV THEN BoolV(Truthy(Get(val))) ELSE Absent

\* [str(item).strip() for item in value if item is not None and str(item).strip()]
RECURSIVE CleanItems(_)
CleanItems(items) ==
    IF items = <<>> THEN <<>>
    ELSE LET item == Head(items)
         IN  (IF item # NoneV /\ Strip(PyStr(item)) # <<>>
              THEN <<StrV(Strip(PyStr(item)))>>
              ELSE <<>>) \o CleanItems(Tail(items))

\* a list field that turns every single value into a one-element list
CleanListKeepBlank(val) ==
    CASE val = Absent -> ListV(<<>>)
      [] val = NoneV -> ListV(<<>>)
      [] val.t = "list" -> ListV(CleanItems(val.v))
      [] OTHER -> ListV(<<StrV(Strip(PyStr(val)))>>)

\* value = contributor.get(field, []): a missing key reads as []
CleanList(val) ==
    CASE val = Absent -> ListV(<<>>)
      [] val = NoneV -> ListV(<<>>)
      [] val.t = "list" -> ListV(CleanItems(val.v))
      [] OTHER -> IF Strip(PyStr(val)) # <<>>
                  THEN ListV(<<StrV(Strip(PyStr(val)))>>)
                  ELSE ListV(<<>>)

CleanField(f, val) ==
    CASE f = "github_username" -> val
      [] f \in StringFields -> CleanString(val)
      [] f \in IntFields -> CleanInt(val)
      [] f = "date_added" -> CleanDate(val)
      [] f \in BooleanFields -> CleanBool(val)
      [] OTHER -> CleanList(val)

\* the logger.warning calls made while one dictionary is cleaned
CleanWarnings(d) ==
    (IF Get(d["github_image_id"]) # NoneV /\ ~IntOk(Get(d["github_image_id"]))
     THEN <<LogRec("warning", "clean_contributor_data")>> ELSE <<>>)
    \o (IF Get(d["sort"]) # NoneV /\ ~IntOk(Get(d["sort"]))
        THEN <<LogRec("warning", "clean_contributor_data")>> ELSE <<>>)
    \o (IF Truthy(Get(d["date_added"]))
           /\ ParseContributorDate(Get(d["date_added"])) = NoDate
        THEN <<LogRec("warning", "parse_contributor_date")>> ELSE <<>>)

\* 'github_username' not in contributor, for an entry that is a dictionary
MissingUsername(d) == d["github_username"] = Absent

\* what clean_contributor_data does with one entry of the fetched list: a
\* dictionary is cleaned or refused; "x in <str>" is a substring test and
\* "x in <int>" or "x in None" is a TypeError
CleanContributorData(item) ==
    CASE item.t = "dict" /\ MissingUsername(item.v) ->
           Raised("ContributorDataError",
                  <<"Contributor missing required field", ": ", "github_username">>,
                  <<>>, <<>>)
      [] item.t = "dict" /\ ~MissingUsername(item.v) ->
           Returned([f \in Fields |-> CleanField(f, item.v[f])], <<>>,
                    CleanWarnings(item.v))
      [] item.t = "str" /\ ~Contains(item.v, "github_username") ->
           Raised("ContributorDataError",
                  <<"Contributor missing required field", ": ", "github_username">>,
                  <<>>, <<>>)
      [] OTHER ->
           Raised("TypeError", <<"not iterable or not subscriptable">>, <<>>, <<>>)

(* ----------------------- get_recent_contributors ---------------------- *)

\* count: int = 4
DefaultCount == 4
\* contributor.get('sort', 999999)
DefaultSort == 999999

\* the loop over the fetched list: .cleaned is what was appended, .failed
\* says that an exception other than ContributorDataError left the loop
RECURSIVE CleanAll(_)
CleanAll(items) ==
    IF items = <<>> THEN [failed |-> FALSE, cleaned |-> <<>>, log |-> <<>>]
    ELSE LET r == CleanContributorData(Head(items))
             rest == CleanAll(Tail(items))
         IN  CASE r.kind = "return" ->
                    [failed |-> rest.failed,
                     cleaned |-> IF rest.failed THEN <<>>
                                 ELSE <<r.value>> \o rest.cleaned,
                     log |-> r.log \o rest.log]
               [] r.kind = "raise" /\ r.exc = "ContributorDataError" ->
                    [failed |-> rest.failed,
                     cleaned |-> rest.cleaned,
                     log |-> <<LogRec("warning", "get_recent_contributors")>>
                             \o rest.log]
               [] OTHER ->
                    [failed |-> TRUE, cleaned |-> <<>>, log |-> <<>>]

\* sort_key: (date_added or datetime.min.date(), sort or 999999)
SortKey(c) ==
    <<IF c["date_added"] = Absent THEN MinDate ELSE c["date_added"].v,
      IF c["sort"] = Absent THEN DefaultSort ELSE c["sort"].v>>

\* tuple comparison k1 < k2 of two sort keys
KeyLess(k1, k2) ==
    LET a == k1[1] \o <<k1[2]>>
        b == k2[1] \o <<k2[2]>>
    IN  \E i \in 1..4 : a[i] < b[i] /\ \A j \in 1..(i - 1) : a[j] = b[j]

\* where sorted(..., reverse=True) puts c among the ones already placed:
\* behind every entry whose key is not smaller (the sort is stable)
RECURSIVE InsertDesc(_, _)
InsertDesc(s, c) ==
    IF s = <<>> THEN <<c>>
    ELSE IF KeyLess(SortKey(Head(s)), SortKey(c))
         THEN <<c>> \o s
         ELSE <<Head(s)>> \o InsertDesc(Tail(s), c)

RECURSIVE SortedDesc(_, _)
SortedDesc(done, todo) ==
    IF todo = <<>> THEN done
    ELSE SortedDesc(InsertDesc(done, Head(todo)), Tail(todo))

\* sorted(cleaned_contributors, key=sort_key, reverse=True)
SortContributors(cleaned) == SortedDesc(<<>>, cleaned)

\* s[:count]
Slice(s, count) ==
    IF count >= 0
    THEN SubSeq(s, 1, IF count < Len(s) THEN count ELSE Len(s))
    ELSE SubSeq(s, 1, IF Len(s) + count > 0 THEN Len(s) + count ELSE 0)

\* a handler that logs and raises again
OnFailureReraise(urls, logs) ==
    Raised("ContributorDataError", <<"Failed to get recent contributors">>, urls,
           logs \o <<LogRec("error", "get_recent_contributors")>>)

\* except clauses that return the empty list without logging
OnFailureSilent(urls, logs) == Returned(<<>>, urls, logs)

\* what the two except clauses of get_recent_contributors do with an
\* exception that reaches them
OnFailure(urls, logs) ==
    Returned(<<>>, urls, logs \o <<LogRec("error", "get_recent_contributors")>>)

\* fetched is what the call fetch_contributors_yaml() did
GetRecentContributors(fetched, count) ==
    IF fetched.kind = "raise"
    THEN OnFailure(fetched.opened, fetched.log)
    ELSE LET all == CleanAll(fetched.value)
         IN  IF all.failed
             THEN OnFailure(fetched.opened, fetched.log \o all.log)
             ELSE Returned(Slice(SortContributors(all.cleaned), count),
                           fetched.opened, fetched.log \o all.log)

(* ------------- fetch_packages_yaml, get_recent_packages --------------- *)
(* core/utils.py as given defines neither function although core/views.py  *)
(* and core/tests.py import them; they are written here from the           *)
(* specification: like the contributor functions, with PackageDataError,   *)
(* the packages returned as fetched, newest date_accepted first.           *)

DefaultPackagesURL ==
    "https://raw.githubusercontent.com/pyOpenSci/pyopensci.github.io/main/_data/packages.yml"
CustomPackagesURL == "https://example.com/custom-packages.yml"

\* get_recent_packages(count=3)
DefaultPkgCount == 3

EffectivePackagesURL(url) == IF url = NoURL THEN DefaultPackagesURL ELSE url

\* a package fetch that classifies no failure
PkgFailureUnclassified(n) == <<"Unexpected error", ": ", "failed">>

\* the message of the PackageDataError raised for the remote end n
PkgFailureMsg(n) ==
    CASE n.open = "URLError" -> NetworkErrorMsg("urlopen error")
      [] n.doc.kind = "YAMLError" -> YAMLErrorMsg("while parsing")
      [] OTHER -> <<"YAML data ", "should be a list", " of packages">>

FetchPackagesYaml(url, n) ==
    LET urls == <<EffectivePackagesURL(url)>>
        fn == "fetch_packages_yaml"
    IN  IF n.open = "ok" /\ n.doc.kind = "list"
        THEN Returned(n.doc.items, urls, <<LogRec("info", fn)>>)
        ELSE Raised("PackageDataError", PkgFailureMsg(n), urls,
                    <<LogRec("error", fn)>>)

\* date d1 is earlier than date d2
DateLess(d1, d2) ==
    \E i \in 1..3 : d1[i] < d2[i] /\ \A j \in 1..(i - 1) : d1[j] = d2[j]

RECURSIVE PkgInsertDesc(_, _)
PkgInsertDesc(s, p) ==
    IF s = <<>> THEN <<p>>
    ELSE IF DateLess(Head(s).date_accepted, p.date_accepted)
         THEN <<p>> \o s
         ELSE <<Head(s)>> \o PkgInsertDesc(Tail(s), p)

RECURSIVE PkgSortedDesc(_, _)
PkgSortedDesc(done, todo) ==
    IF todo = <<>> THEN done
    ELSE PkgSortedDesc(PkgInsertDesc(done, Head(todo)), Tail(todo))

\* packages in the order fetched
SortPackagesNot(pkgs) == pkgs

\* sorted by date_accepted, newest first
SortPackages(pkgs) == PkgSortedDesc(<<>>, pkgs)

\* the exception is logged and the empty list returned
OnPkgFailure(urls, logs) ==
    Returned(<<>>, urls, logs \o <<LogRec("error", "get_recent_packages")>>)

\* None stands for "count not given"
NoCount == -1
EffectivePkgCount(count) == IF count = NoCount THEN DefaultPkgCount ELSE count

\* fetched is what the call fetch_packages_yaml() did
GetRecentPackages(fetched, count) ==
    IF fetched.kind = "raise"
    THEN OnPkgFailure(fetched.opened, fetched.log)
    ELSE Returned(Slice(SortPackages(fetched.value), EffectivePkgCount(count)),
                  fetched.opened, fetched.log)

(* ----------------------- the pages and their queries ------------------ *)

\* a page of the database: kind is "blog" (BlogPage) or "event" (EventPage),
\* date is the field its views order by (date of a BlogPage, start_date of an
\* EventPage), tags the names of its tags
Page(id, kind, live, date, tags) ==
    [id |-> id, kind |-> kind, live |-> live, date |-> date, tags |-> tags]

\* Model.objects.live(): the published pages of one model, in table order
Live(pages, kind) == SelectSeq(pages, LAMBDA p : p.kind = kind /\ p.live)

\* the rows before p in an ORDER BY date DESC; rows of one date are in the
\* order the database gives them, by ascending or by descending id
Before(p, q, ties) ==
    \/ DateLess(q.date, p.date)
    \/ p.date = q.date /\ (IF ties = "asc" THEN p.id < q.id ELSE p.id > q.id)

RECURSIVE InsertPage(_, _, _)
InsertPage(s, p, ties) ==
    IF s = <<>> THEN <<p>>
    ELSE IF Before(p, Head(s), ties) THEN <<p>> \o s
         ELSE <<Head(s)>> \o InsertPage(Tail(s), p, ties)

RECURSIVE OrderedPages(_, _, _)
OrderedPages(done, todo, ties) ==
    IF todo = <<>> THEN done
    ELSE OrderedPages(InsertPage(done, Head(todo), ties), Tail(todo), ties)

\* .order_by('-date') or .order_by('-start_date')
OrderByDateDesc(pages, ties) == OrderedPages(<<>>, pages, ties)

\* .filter(date__year=year) or .filter(start_date__year=year)
FilterYear(pages, year) == SelectSeq(pages, LAMBDA p : p.date[1] = year)

(* ------------------------- query parameters --------------------------- *)

\* a query parameter is Absent or a str, one character per element
Digits == {"0", "1", "2", "3", "4", "5", "6", "7", "8", "9"}

\* characters str.isdigit() accepts: the decimal digits and others, such as
\* the superscript two
IsDigitChar(c) == c \in Digits \cup {"^2"}

\* str.isdigit(): at least one character, all of them digits
IsDigit(text) == text # <<>> /\ \A i \in 1..Len(text) : IsDigitChar(text[i])

DigitVal(c) == CHOOSE v \in 0..9 : ToString(v) = c

RECURSIVE DecimalVal(_)
DecimalVal(text) ==
    IF text = <<>> THEN 0
    ELSE 10 * DecimalVal(SubSeq(text, 1, Len(text) - 1)) + DigitVal(text[Len(text)])

\* the text without the one sign int() allows in front
Unsigned(s) == IF s # <<>> /\ Head(s) \in {"-", "+"} THEN Tail(s) ELSE s

\* int(text) succeeds: decimal digits, with whitespace around them and one
\* sign in front allowed; for anything else int raises ValueError
IsInt(text) ==
    LET body == Unsigned(Strip(text))
    IN  body # <<>> /\ \A i \in 1..Len(body) : body[i] \in Digits

\* int(text) where it succeeds
PyInt(text) ==
    LET s == Strip(text)
    IN  IF Head(s) = "-" THEN 0 - DecimalVal(Unsigned(s))
        ELSE DecimalVal(Unsigned(s))

(* ------------------------------ Paginator ----------------------------- *)

\* Paginator(blog_posts, 12)
BlogPerPage == 12
\* Paginator(events, 15)
EventsPerPage == 15

\* Paginator.num_pages: an empty list still has its first page
NumPages(count, per) == IF count = 0 THEN 1 ELSE (count + per - 1) \div per

\* Paginator.validate_number: int(None) is a TypeError, int of a text that
\* is no integer a ValueError, both raised again as PageNotAnInteger
ValidateNumber(page, num) ==
    IF page = Absent \/ ~IsInt(page.v)
    THEN [exc |-> "PageNotAnInteger", number |-> 0]
    ELSE IF PyInt(page.v) < 1 \/ PyInt(page.v) > num
         THEN [exc |-> "EmptyPage", number |-> 0]
         ELSE [exc |-> "", number |-> PyInt(page.v)]

\* a view that lets EmptyPage through
PageNumberStrict(page, num) ==
    LET v == ValidateNumber(page, num)
    IN  IF v.exc = "PageNotAnInteger" THEN [exc |-> "", number |-> 1] ELSE v

\* try paginator.page(page); except PageNotAnInteger: page(1);
\* except EmptyPage: page(paginator.num_pages)
PageNumber(page, num) ==
    LET v == ValidateNumber(page, num)
    IN  CASE v.exc = "PageNotAnInteger" -> [exc |-> "", number |-> 1]
          [] v.exc = "EmptyPage" -> [exc |-> "", number |-> num]
          [] OTHER -> v

\* Page.object_list: the slice of the list the page shows
ObjectList(list, per, number) ==
    SubSeq(list, (number - 1) * per + 1,
           IF number * per < Len(list) THEN number * per ELSE Len(list))

(* ------------------------ blog_index, events_index -------------------- *)

\* timezone.now().date()
Today == <<2025, 6, 15>>

\* if year_filter and year_filter.isdigit():
YearGiven(year) == Truthy(Get(year)) /\ IsDigit(year.v)

\* .order_by('start_date') of a list in descending order
Reversed(s) == [i \in 1..Len(s) |-> s[Len(s) + 1 - i]]

\* the response of blog_index (kind "blog", per BlogPerPage) or events_index
\* (kind "event", per EventsPerPage) to ?year=<year>&page=<page>
IndexView(pages, kind, per, year, page, ties) ==
    IF YearGiven(year) /\ ~IsInt(year.v)
    THEN \* int(year_filter) raises ValueError and nothing handles it
         [status |-> 500, exc |-> "ValueError", listing |-> <<>>, number |-> 0,
          num_pages |-> 0, object_list |-> <<>>, upcoming |-> <<>>,
          selected_year |-> year]
    ELSE LET all == OrderByDateDesc(Live(pages, kind), ties)
             listing == IF YearGiven(year) THEN FilterYear(all, PyInt(year.v)) ELSE all
             num == NumPages(Len(listing), per)
             n == PageNumber(page, num)
         IN  [status |-> IF n.exc = "" THEN 200 ELSE 404,
              exc |-> n.exc,
              listing |-> listing,
              number |-> n.number,
              num_pages |-> num,
              object_list |-> IF n.exc = "" THEN ObjectList(listing, per, n.number)
                              ELSE <<>>,
              upcoming |-> IF kind = "event"
                           THEN Reversed(SelectSeq(all,
                                    LAMBDA p : ~DateLess(p.date, Today)))
                           ELSE <<>>,
              selected_year |-> year]

(* -------------------------------- home -------------------------------- *)

HomeFields == {"github_avatar_url", "github_profile_url", "display_name"}

\* generate_github_avatar_url
GenerateGithubAvatarUrl(id) ==
    StrV(<<"https://avatars.githubusercontent.com/u/">> \o PyStr(id)
         \o <<"?s=400&v=4">>)

\* generate_github_profile_url
GenerateGithubProfileUrl(username) ==
    StrV(<<"https://github.com/">> \o PyStr(username))

\* if contributor.get('github_image_id'):
HasImageId(c) == Truthy(Get(c["github_image_id"]))

\* contributor['name'] if 'name' in contributor else f"@{...}"
DisplayNameIfKey(c) ==
    IF c["name"] # Absent THEN c["name"]
    ELSE StrV(<<"@">> \o PyStr(c["github_username"]))

\* contributor.get('name') or f"@{contributor['github_username']}"
DisplayName(c) ==
    IF Truthy(Get(c["name"])) THEN c["name"]
    ELSE StrV(<<"@">> \o PyStr(c["github_username"]))

\* the body of the loop of home over one contributor
Enhance(c) ==
    [f \in Fields \cup HomeFields |->
        CASE f = "github_avatar_url" ->
               IF HasImageId(c) THEN GenerateGithubAvatarUrl(c["github_image_id"])
               ELSE Absent
          [] f = "github_profile_url" ->
               GenerateGithubProfileUrl(c["github_username"])
          [] f = "display_name" -> DisplayName(c)
          [] OTHER -> c[f]]

\* a view that hands the contributors to the template last one first
HomeReversed(recent) ==
    Returned([i \in 1..Len(recent.value) |->
                 Enhance(recent.value[Len(recent.value) + 1 - i])],
             recent.opened, recent.log)

\* recent is what the call get_recent_contributors(count=4) did; the value
\* returned is context['recent_contributors']
Home(recent) ==
    IF \E i \in 1..Len(recent.value) : recent.value[i]["github_username"] = Absent
    THEN Raised("KeyError", <<"github_username">>, recent.opened, recent.log)
    ELSE Returned([i \in 1..Len(recent.value) |-> Enhance(recent.value[i])],
                  recent.opened, recent.log)

(* ----------------------------- the inputs ----------------------------- *)

Base == [f \in Fields |-> Absent]

User(u) == [Base EXCEPT !["github_username"] = StrV(<<u>>)]

Text20240102 == StrV(<<"2024", "-", "01", "-", "02">>)
Text13Jan2024 == StrV(<<" ", "13", "/", "01", "/", "2024">>)
Text00010101 == StrV(<<"0001", "-", "01", "-", "01">>)

\* the entries a served list is made of
Items ==
    { DictV(User("a")),
      DictV([User("b") EXCEPT !["date_added"] = Text00010101]),
      DictV([User("a") EXCEPT !["date_added"] = Text20240102]),
      DictV([User("a") EXCEPT !["date_added"] = StrV(<<"soon">>),
                              !["name"] = StrV(<<>>)]),
      DictV([User("a") EXCEPT !["date_added"] = Text13Jan2024,
                              !["name"] = StrV(<<" ", "Al">>),
                              !["github_image_id"] = IntV(7)]),
      DictV([User("a") EXCEPT !["name"] = StrV(<<" ">>),
                              !["github_image_id"] = IntV(0)]),
      DictV([User("b") EXCEPT !["github_image_id"] = StrV(<<"x">>),
                              !["title"] = StrV(<<" ", "Editor">>),
                              !["sort"] = IntV(1)]),
      DictV([Base EXCEPT !["name"] = StrV(<<"Al">>)]),
      IntV(5),
      StrV(<<"x">>) }

RECURSIVE SeqsUpTo(_, _)
SeqsUpTo(S, n) ==
    IF n = 0 THEN {<<>>}
    ELSE LET shorter == SeqsUpTo(S, n - 1)
         IN  shorter \cup {Append(s, x) : s \in shorter, x \in S}

\* what read().decode('utf-8') and yaml.safe_load make of the body
Docs ==
    {[kind |-> "list", items |-> l] : l \in SeqsUpTo(Items, MaxLen)}
        \cup {[kind |-> k, items |-> <<>>] :
                k \in {"mapping", "none", "YAMLError", "undecodable"}}

\* what urlopen does
Opens == {"ok", "URLError", "ValueError"}

Counts == (0..MaxCount) \cup {DefaultCount}

URLs == {NoURL, CustomURL}

(* ------------------------------ the state ----------------------------- *)

NoCall == [name |-> "none", url |-> NoURL, count |-> 0, side |-> ""]

NoResult == [kind |-> "none", value |-> <<>>, exc |-> "", msg |-> <<>>]

\* no remote end, no page, no view: the parts of the state a specification
\* leaves alone
NoNet == [open |-> "ok", doc |-> [kind |-> "none", items |-> <<>>]]
NoPages == <<>>
NoInner == [fetch |-> "none", before |-> "none", recent |-> <<>>, packages |-> <<>>]
NoResp == [status |-> 0, recent_packages |-> <<>>, recent_blog_posts |-> <<>>]

Finish(call, r) ==
    /\ op' = call
    /\ ret' = [kind |-> r.kind, value |-> r.value, exc |-> r.exc, msg |-> r.msg]
    /\ opened' = r.opened
    /\ log' = r.log
    /\ inner' = NoInner
    /\ resp' = NoResp
    /\ UNCHANGED <<net, pnet, db>>

\* nothing has been called yet
Idle ==
    /\ op = NoCall
    /\ ret = NoResult
    /\ opened = <<>>
    /\ log = <<>>
    /\ inner = NoInner
    /\ resp = NoResp

Init ==
    /\ net \in [open : Opens, doc : Docs]
    /\ pnet = NoNet
    /\ db = NoPages
    /\ Idle

\* the remote end goes down or comes back between two calls; op, ret, opened
\* and log describe the latest call against the remote end as it is now
NetworkChange ==
    /\ \E o \in Opens \ {net.open} : net' = [net EXCEPT !.open = o]
    /\ op' = NoCall
    /\ ret' = NoResult
    /\ opened' = <<>>
    /\ log' = <<>>
    /\ inner' = NoInner
    /\ resp' = NoResp
    /\ UNCHANGED <<pnet, db>>

\* fetch_contributors_yaml(url)
FetchCall ==
    \E url \in URLs :
        Finish([NoCall EXCEPT !.name = "fetch_contributors_yaml",
                              !.url = url],
               FetchContributorsYaml(url, net))

\* get_recent_contributors(count)
RecentCall ==
    \E count \in Counts :
        Finish([NoCall EXCEPT !.name = "get_recent_contributors",
                              !.count = count],
               GetRecentContributors(FetchContributorsYaml(NoURL, net), count))

\* what a patched fetch_contributors_yaml does: return_value or side_effect
Patched(side, doc) ==
    IF side = "return" THEN Returned(doc.items, <<>>, <<>>)
    ELSE Raised(side, <<"mock side effect">>, <<>>, <<>>)

\* get_recent_contributors(count) with fetch_contributors_yaml patched, as
\* the unit tests call it
RecentPatchedCall ==
    \E count \in {MaxCount, DefaultCount},
       side \in {"return", "ContributorDataError", "ValueError"} :
        /\ side = "return" => IsList(net.doc)
        /\ Finish([NoCall EXCEPT !.name = "get_recent_contributors",
                                 !.count = count, !.side = side],
                  GetRecentContributors(Patched(side, net.doc), count))

\* a view that shows the list an earlier request got when this request's
\* list is empty
ReuseEarlier(earlier, recent) ==
    IF recent.value = <<>> THEN [recent EXCEPT !.value = earlier] ELSE recent

\* recent_contributors = get_recent_contributors(count=4): a local of the
\* request, assigned from this request's call whatever earlier requests got
ThisRequest(earlier, recent) == recent

\* home(request): the contributors loop, then get_recent_packages(count=3)
\* and the three newest blog posts (not reached when the loop raises), then
\* render; recent and packages are
\* what the two calls did, fetch says how the contributors fetch ended
HomeView(call, fetch, recent, packages) ==
    LET this == ThisRequest(inner.recent, recent)
        h == Home(this)
        done == h.kind = "return"
    IN  /\ op' = call
        /\ ret' = [kind |-> h.kind, value |-> h.value, exc |-> h.exc, msg |-> h.msg]
        /\ opened' = h.opened \o (IF done THEN packages.opened ELSE <<>>)
        /\ log' = h.log \o (IF done THEN packages.log ELSE <<>>)
        /\ inner' = [fetch |-> fetch, before |-> inner.fetch, recent |-> this.value,
                     packages |-> IF done THEN packages.value ELSE <<>>]
        /\ \E ties \in {"asc", "desc"} :
              resp' = [status |-> IF done THEN 200 ELSE 500,
                       recent_packages |-> IF done THEN packages.value ELSE <<>>,
                       recent_blog_posts |->
                           IF done
                           THEN Slice(OrderByDateDesc(Live(db, "blog"), ties), 3)
                           ELSE <<>>]
        /\ UNCHANGED <<net, pnet, db>>

HomeRequest == [NoCall EXCEPT !.name = "home", !.count = DefaultCount]

\* how the fetch of contributors.yml ends against the remote end as it is
FetchOutcome(n) ==
    IF FetchContributorsYaml(NoURL, n).kind = "raise" THEN "failed" ELSE "ok"

\* the home view
HomeCall ==
    HomeView(HomeRequest, FetchOutcome(net),
             GetRecentContributors(FetchContributorsYaml(NoURL, net), DefaultCount),
             GetRecentPackages(FetchPackagesYaml(NoURL, pnet), DefaultPkgCount))

\* the home view with get_recent_contributors patched to return a list of
\* dictionaries, as the view tests call it
HomePatchedCall ==
    /\ IsList(net.doc)
    /\ \A i \in 1..Len(net.doc.items) : net.doc.items[i].t = "dict"
    /\ HomeView([HomeRequest EXCEPT !.side = "return"], "patched",
                Returned([i \in 1..Len(net.doc.items) |-> net.doc.items[i].v],
                         <<>>, <<>>),
                GetRecentPackages(FetchPackagesYaml(NoURL, pnet), DefaultPkgCount))

Next ==
    \/ NetworkChange
    \/ FetchCall
    \/ RecentCall
    \/ RecentPatchedCall
    \/ HomeCall
    \/ HomePatchedCall

Spec == Init /\ [][Next]_vars

(* ------------------------------ the claims ---------------------------- *)

IsFetch == op.name = "fetch_contributors_yaml"
IsRecent == op.name = "get_recent_contributors"
IsHome == op.name = "home"

\* the fetch made (or patched) inside the latest call raised
FetchRaised ==
    IF op.side = "" THEN net.open # "ok" \/ net.doc.kind # "list"
    ELSE op.side # "return"

Min(a, b) == IF a < b THEN a ELSE b

\* C1: get_recent_contributors never raises; whenever its fetch raises
\* ContributorDataError or any other exception it returns the empty list.
C1_RecentNeverRaises ==
    IsRecent =>
        /\ ret.kind = "return"
        /\ FetchRaised => ret.value = <<>>

C1_Witness ==
    /\ IsRecent /\ op.side = "ValueError"
    /\ ret.kind = "return" /\ ret.value = <<>>

C3_NotAListRaises ==
    (IsFetch /\ net.open = "ok" /\ net.doc.kind \in {"mapping", "none"}) =>
        /\ ret.kind = "raise" /\ ret.exc = "ContributorDataError"
        /\ Contains(ret.msg, "should be a list")

C3_Witness ==
    /\ IsFetch /\ net.open = "ok" /\ net.doc.kind = "mapping"
    /\ ret.kind = "raise" /\ Contains(ret.msg, "should be a list")

\* C4: when the URL can be read and the body parses to a list,
\* fetch_contributors_yaml returns that list: same entries, same order.
C4_ReturnsParsedList ==
    (IsFetch /\ net.open = "ok" /\ net.doc.kind = "list") =>
        ret.kind = "return" /\ ret.value = net.doc.items

C4_Witness ==
    /\ IsFetch /\ net.open = "ok" /\ net.doc.kind = "list"
    /\ ret.kind = "return" /\ Len(ret.value) >= 2
    /\ \E i \in 1..Len(ret.value) : ret.value[i].t # "dict"

\* C5: one call of fetch_contributors_yaml opens exactly one URL, whether it
\* succeeds or fails: its argument, or the default URL when that is None.
C5_OpensOnce ==
    IsFetch =>
        opened = <<IF op.url = NoURL THEN DefaultURL ELSE op.url>>

C5_Witness ==
    /\ IsFetch /\ op.url = CustomURL /\ ret.kind = "raise"
    /\ opened = <<CustomURL>>

\* the list the fetch of the latest get_recent_contributors call returned
Fetched == net.doc.items

\* every entry is a dictionary with a github_username
AllValid(l) ==
    \A i \in 1..Len(l) : l[i].t = "dict" /\ l[i].v["github_username"] # Absent

\* C6 as stated: get_recent_contributors(n) returns the fetched list in
\* reverse order limited to its first n entries, each equal to the fetched
\* dictionary.
C6_ReversedFetched ==
    (IsRecent /\ ~FetchRaised /\ AllValid(Fetched)) =>
        /\ ret.kind = "return"
        /\ Len(ret.value) = Min(op.count, Len(Fetched))
        /\ \A i \in 1..Len(ret.value) :
              ret.value[i] = Fetched[Len(Fetched) + 1 - i].v

\* the number of entries of l that are dictionaries with a github_username
NumValid(l) ==
    Cardinality({i \in 1..Len(l) :
                    l[i].t = "dict" /\ l[i].v["github_username"] # Absent})

\* C7 as stated: get_recent_contributors(count) returns min(count, V)
\* entries, V the number of fetched contributors with a github_username.
C7_MinCountValid ==
    (IsRecent /\ ~FetchRaised) =>
        ret.kind = "return" /\ Len(ret.value) = Min(op.count, NumValid(Fetched))

Dated(c) == c["date_added"] # Absent

\* d1 is the same day as d2 or a later one
NotBefore(d1, d2) ==
    \/ d1[1] > d2[1]
    \/ d1[1] = d2[1] /\ d1[2] > d2[2]
    \/ d1[1] = d2[1] /\ d1[2] = d2[2] /\ d1[3] >= d2[3]

\* C8 as stated: the list get_recent_contributors returns is sorted by
\* date_added, newest first, and every contributor without a date_added
\* comes after every contributor that has one.
C8_SortedDatedFirst ==
    (IsRecent /\ ret.kind = "return") =>
        \A i, j \in 1..Len(ret.value) :
            i < j =>
                /\ (Dated(ret.value[i]) /\ Dated(ret.value[j])) =>
                      NotBefore(ret.value[i]["date_added"].v,
                                ret.value[j]["date_added"].v)
                /\ ~(~Dated(ret.value[i]) /\ Dated(ret.value[j]))

\* C9: for every contributor the home view shows, github_profile_url is
\* "https://github.com/" followed by the github_username, and display_name
\* is the name when that is present and not empty and "@" followed by the
\* github_username otherwise.
C9_ProfileUrlAndDisplayName ==
    (IsHome /\ ret.kind = "return") =>
        \A i \in 1..Len(ret.value) :
            LET c == ret.value[i]
                username == c["github_username"].v
            IN  /\ c["github_profile_url"]
                     = StrV(<<"https://github.com/">> \o username)
                /\ c["display_name"]
                     = IF c["name"] # Absent /\ c["name"].v # <<>>
                       THEN c["name"]
                       ELSE StrV(<<"@">> \o username)

C9_Witness ==
    /\ IsHome /\ op.side = "" /\ ret.kind = "return"
    /\ \E i, j \in 1..Len(ret.value) :
          /\ ret.value[i]["name"] # Absent
          /\ ret.value[i]["display_name"] = StrV(<<"Al">>)
          /\ ret.value[j]["name"] = Absent
          /\ ret.value[j]["display_name"] = StrV(<<"@", "b">>)
          /\ ret.value[j]["github_profile_url"]
                = StrV(<<"https://github.com/", "b">>)

\* C10 as stated: the home view sets github_avatar_url to
\* "https://avatars.githubusercontent.com/u/<github_image_id>?s=400&v=4" on
\* every contributor that has a github_image_id and sets none on a
\* contributor that has no github_image_id.
C10_AvatarIffImageId ==
    (IsHome /\ ret.kind = "return") =>
        \A i \in 1..Len(ret.value) :
            LET c == ret.value[i]
                id == c["github_image_id"]
            IN  IF id = Absent THEN c["github_avatar_url"] = Absent
                ELSE c["github_avatar_url"]
                        = StrV(<<"https://avatars.githubusercontent.com/u/">>
                               \o (IF id.t = "int" THEN <<ToString(id.v)>>
                                   ELSE id.v)
                               \o <<"?s=400&v=4">>)

(* ------------------------- the package functions ---------------------- *)

Pkg(name, date) == [package_name |-> name, date_accepted |-> date]

\* the entries a served packages list is made of
PItems ==
    { Pkg("test-package-1", <<2024, 1, 15>>),
      Pkg("another-package", <<2024, 1, 10>>),
      Pkg("old-package", <<2024, 1, 5>>) }

PDocs ==
    {[kind |-> "list", items |-> l] : l \in SeqsUpTo(PItems, MaxPkgs)}
        \cup {[kind |-> k, items |-> <<>>] : k \in {"mapping", "YAMLError"}}

POpens == {"ok", "URLError"}

PkgCounts == (0..MaxCount) \cup {NoCount}

InitPackages ==
    /\ net = NoNet
    /\ pnet \in [open : POpens, doc : PDocs]
    /\ db = NoPages
    /\ Idle

\* the remote end of packages.yml goes down or comes back between two calls
PackageNetworkChange ==
    /\ \E o \in POpens \ {pnet.open} : pnet' = [pnet EXCEPT !.open = o]
    /\ op' = NoCall
    /\ ret' = NoResult
    /\ opened' = <<>>
    /\ log' = <<>>
    /\ inner' = NoInner
    /\ resp' = NoResp
    /\ UNCHANGED <<net, db>>

\* fetch_packages_yaml(url)
FetchPackagesCall ==
    \E url \in {NoURL, CustomPackagesURL} :
        Finish([NoCall EXCEPT !.name = "fetch_packages_yaml", !.url = url],
               FetchPackagesYaml(url, pnet))

\* get_recent_packages(count)
RecentPackagesCall ==
    \E count \in PkgCounts :
        Finish([NoCall EXCEPT !.name = "get_recent_packages", !.count = count],
               GetRecentPackages(FetchPackagesYaml(NoURL, pnet), count))

\* get_recent_packages(count) with fetch_packages_yaml patched, as the unit
\* tests call it
RecentPackagesPatchedCall ==
    \E count \in {MaxCount, NoCount},
       side \in {"return", "PackageDataError", "ValueError"} :
        /\ side = "return" => IsList(pnet.doc)
        /\ Finish([NoCall EXCEPT !.name = "get_recent_packages",
                                 !.count = count, !.side = side],
                  GetRecentPackages(Patched(side, pnet.doc), count))

NextPackages ==
    \/ PackageNetworkChange
    \/ FetchPackagesCall
    \/ RecentPackagesCall
    \/ RecentPackagesPatchedCall

SpecPackages == InitPackages /\ [][NextPackages]_vars

IsFetchPackages == op.name = "fetch_packages_yaml"
IsRecentPackages == op.name = "get_recent_packages"

\* the fetch made (or patched) inside the latest package call raised
PkgFetchRaised ==
    IF op.side = "" THEN pnet.open # "ok" \/ pnet.doc.kind # "list"
    ELSE op.side # "return"

\* how often x occurs in the sequence s
Occurrences(s, x) == Cardinality({i \in 1..Len(s) : s[i] = x})

\* C12: get_recent_packages(count) returns the fetched packages sorted by
\* date_accepted, newest first, limited to the first count entries; count is
\* 3 when it is not given.
C12_RecentPackagesSorted ==
    (IsRecentPackages /\ ~PkgFetchRaised) =>
        LET l == pnet.doc.items
            n == IF op.count = NoCount THEN 3 ELSE op.count
        IN  /\ ret.kind = "return"
            /\ Len(ret.value) = Min(n, Len(l))
            /\ \A i, j \in 1..Len(ret.value) :
                  i < j => NotBefore(ret.value[i].date_accepted,
                                     ret.value[j].date_accepted)
            /\ \A p \in PItems :
                  /\ Occurrences(ret.value, p) <= Occurrences(l, p)
                  /\ Occurrences(ret.value, p) < Occurrences(l, p) =>
                        \A i \in 1..Len(ret.value) :
                            NotBefore(ret.value[i].date_accepted, p.date_accepted)

C12_Witness ==
    /\ IsRecentPackages /\ op.side = "" /\ op.count = NoCount
    /\ pnet.open = "ok" /\ pnet.doc.kind = "list" /\ Len(pnet.doc.items) = 4
    /\ Len(ret.value) = 3
    /\ ret.value # SubSeq(pnet.doc.items, 1, 3)
    /\ ret.value[1].date_accepted # ret.value[3].date_accepted

\* C13: fetch_packages_yaml raises PackageDataError with "Network error",
\* "YAML parsing error" or "should be a list" in its message for a network
\* error, a YAML parse error and a document that is no list, and
\* get_recent_packages returns the empty list whenever its fetch raises
\* PackageDataError or any other exception.
C13_PackageFailures ==
    /\ (IsFetchPackages /\ (pnet.open # "ok" \/ pnet.doc.kind # "list")) =>
          /\ ret.kind = "raise" /\ ret.exc = "PackageDataError"
          /\ pnet.open = "URLError" => Contains(ret.msg, "Network error")
          /\ (pnet.open = "ok" /\ pnet.doc.kind = "YAMLError") =>
                Contains(ret.msg, "YAML parsing error")
          /\ (pnet.open = "ok" /\ pnet.doc.kind = "mapping") =>
                Contains(ret.msg, "should be a list")
    /\ (IsRecentPackages /\ PkgFetchRaised) =>
          ret.kind = "return" /\ ret.value = <<>>

C13_Witness ==
    /\ IsFetchPackages /\ pnet.open = "ok" /\ pnet.doc.kind = "YAMLError"
    /\ ret.kind = "raise" /\ ret.exc = "PackageDataError"
    /\ Contains(ret.msg, "YAML parsing error")

\* an exception reached one of the two except clauses of the latest
\* get_recent_contributors call: its fetch raised, or an entry of the fetched
\* list made clean_contributor_data raise something else than
\* ContributorDataError
RecentFailed == FetchRaised \/ CleanAll(Fetched).failed

\* C18: whenever get_recent_contributors returns the empty list because
\* fetching or processing failed, the call has emitted at least one
\* error-level log record.
C18_FailureLogged ==
    (IsRecent /\ RecentFailed) =>
        /\ ret.kind = "return" /\ ret.value = <<>>
        /\ \E i \in 1..Len(log) : log[i].level = "error"

C18_Witness ==
    /\ IsRecent /\ op.side = "" /\ ~FetchRaised /\ CleanAll(Fetched).failed
    /\ ret.value = <<>>
    /\ log[Len(log)] = LogRec("error", "get_recent_contributors")

(* ----------------------- clean_contributor_data ----------------------- *)
(* called on its own: net.doc holds the one record the call is given      *)

\* values a string field of contributors.yml can hold
StringValues ==
    { Absent, NoneV, StrV(<<>>), StrV(<<" ">>), StrV(<<"Al">>),
      StrV(<<" ", "Al", " ">>), IntV(0), IntV(5), BoolV(FALSE) }

\* values a list field of contributors.yml can hold
ListValues ==
    { Absent, NoneV, ListV(<<>>),
      ListV(<<StrV(<<" ", "Editor">>), NoneV, StrV(<<" ">>)>>),
      ListV(<<IntV(0), StrV(<<>>), StrV(<<"Reviewer", " ">>)>>),
      StrV(<<"Editor">>), StrV(<<" ", "Editor", " ">>), StrV(<<" ">>),
      StrV(<<>>), IntV(0), BoolV(FALSE) }

Records ==
    { DictV([User("a") EXCEPT ![sf] = sv, ![lf] = lv]) :
        sf \in {"name", "website"}, sv \in StringValues,
        lf \in {"title", "packages_reviewed"}, lv \in ListValues }
    \cup {DictV(Base), IntV(5)}

OneRecord(r) == [open |-> "ok", doc |-> [kind |-> "list", items |-> <<r>>]]

InitClean ==
    /\ net \in {OneRecord(r) : r \in Records}
    /\ pnet = NoNet
    /\ db = NoPages
    /\ Idle

\* clean_contributor_data(contributor)
CleanCall ==
    Finish([NoCall EXCEPT !.name = "clean_contributor_data"],
           CleanContributorData(net.doc.items[1]))

\* the next call is given another record
RecordChange ==
    /\ \E r \in Records \ {net.doc.items[1]} : net' = OneRecord(r)
    /\ op' = NoCall
    /\ ret' = NoResult
    /\ opened' = <<>>
    /\ log' = <<>>
    /\ inner' = NoInner
    /\ resp' = NoResp
    /\ UNCHANGED <<pnet, db>>

NextClean == CleanCall \/ RecordChange

SpecClean == InitClean /\ [][NextClean]_vars

\* the latest call cleaned a dictionary that has a github_username
IsCleaned ==
    /\ op.name = "clean_contributor_data"
    /\ net.doc.items[1].t = "dict"
    /\ ~MissingUsername(net.doc.items[1].v)

\* a list of non-empty strings without leading or trailing whitespace
StrippedStrings(val) ==
    /\ val.t = "list"
    /\ \A i \in 1..Len(val.v) :
          val.v[i].t = "str" /\ val.v[i].v # <<>> /\ Strip(val.v[i].v) = val.v[i].v

IsSingle(val) == val # Absent /\ val # NoneV /\ val.t # "list"

\* a string field is in the result only with a non-empty stripped value
StringFieldsStripped(d, c) ==
    \A f \in StringFields :
        /\ c[f] # Absent =>
              /\ c[f].t = "str" /\ c[f].v # <<>>
              /\ c[f].v = Strip(PyStr(d[f]))
        /\ (d[f] # Absent /\ d[f].t = "str") =>
              (c[f] # Absent <=> Strip(d[f].v) # <<>>)

\* C19 as stated: every list field is in the result as a list of non-empty
\* stripped strings, [] for an absent or None value and a one-element list
\* for every single value; a string field is present only with its non-empty
\* stripped value.
C19_AsStated ==
    IsCleaned =>
        LET d == net.doc.items[1].v
            c == ret.value
        IN  /\ ret.kind = "return"
            /\ \A f \in ListFields :
                  /\ StrippedStrings(c[f])
                  /\ d[f] \in {Absent, NoneV} => c[f].v = <<>>
                  /\ IsSingle(d[f]) => Len(c[f].v) = 1
            /\ StringFieldsStripped(d, c)

\* C19, amended: as above, but a single value becomes the one-element list of
\* its stripped text only when that text is not empty, and [] when it is.
C19_Normalised ==
    IsCleaned =>
        LET d == net.doc.items[1].v
            c == ret.value
        IN  /\ ret.kind = "return"
            /\ \A f \in ListFields :
                  /\ StrippedStrings(c[f])
                  /\ d[f] \in {Absent, NoneV} => c[f].v = <<>>
                  /\ IsSingle(d[f]) =>
                        c[f].v = IF Strip(PyStr(d[f])) = <<>> THEN <<>>
                                 ELSE <<StrV(Strip(PyStr(d[f])))>>
            /\ StringFieldsStripped(d, c)

C19_Witness ==
    /\ IsCleaned /\ ret.kind = "return"
    /\ net.doc.items[1].v["title"] = StrV(<<" ", "Editor", " ">>)
    /\ ret.value["title"] = ListV(<<StrV(<<"Editor">>)>>)
    /\ net.doc.items[1].v["packages_reviewed"] = Absent
    /\ ret.value["packages_reviewed"] = ListV(<<>>)
    /\ net.doc.items[1].v["name"] = StrV(<<" ", "Al", " ">>)
    /\ ret.value["name"] = StrV(<<"Al">>)

(* --------------------- requests for the home page --------------------- *)

\* the entries contributors.yml is made of when the home page is requested
HomeItems ==
    { DictV(User("a")),
      DictV([User("b") EXCEPT !["date_added"] = Text13Jan2024,
                              !["name"] = StrV(<<" ", "Al">>),
                              !["github_image_id"] = IntV(7)]),
      DictV([User("a") EXCEPT !["name"] = StrV(<<" ">>),
                              !["github_image_id"] = IntV(0)]),
      DictV([Base EXCEPT !["name"] = StrV(<<"Al">>)]),
      IntV(5) }

HomeDocs ==
    {[kind |-> "list", items |-> l] : l \in SeqsUpTo(HomeItems, MaxLen)}
        \cup {[kind |-> "YAMLError", items |-> <<>>]}

\* what packages.yml parses to when the home page is requested
HomePDocs ==
    { [kind |-> "list", items |-> <<>>],
      [kind |-> "list",
       items |-> <<Pkg("old-package", <<2024, 1, 5>>),
                   Pkg("test-package-1", <<2024, 1, 15>>)>>],
      [kind |-> "list",
       items |-> <<Pkg("old-package", <<2024, 1, 5>>),
                   Pkg("another-package", <<2024, 1, 10>>),
                   Pkg("test-package-1", <<2024, 1, 15>>),
                   Pkg("another-package", <<2024, 1, 10>>)>>],
      [kind |-> "mapping", items |-> <<>>] }

InitHome ==
    /\ net \in [open : Opens, doc : HomeDocs]
    /\ pnet \in [open : POpens, doc : HomePDocs]
    /\ db = NoPages
    /\ Idle

\* the remote end of contributors.yml goes down or comes back between two
\* requests; what the latest request answered stays as it was sent
RemoteChange ==
    /\ \E o \in Opens \ {net.open} : net' = [net EXCEPT !.open = o]
    /\ UNCHANGED <<pnet, db, op, ret, opened, log, inner, resp>>

\* the home view with get_recent_packages patched to return a list, as the
\* view tests call it
HomePackagesPatchedCall ==
    /\ IsList(pnet.doc)
    /\ HomeView([HomeRequest EXCEPT !.side = "packages"], FetchOutcome(net),
                GetRecentContributors(FetchContributorsYaml(NoURL, net),
                                      DefaultCount),
                Returned(pnet.doc.items, <<>>, <<>>))

NextHome ==
    \/ RemoteChange
    \/ HomeCall
    \/ HomePatchedCall
    \/ HomePackagesPatchedCall

SpecHome == InitHome /\ [][NextHome]_vars

\* every contributor get_recent_contributors returned has the
\* github_username clean_contributor_data requires
ResultOfRecent(l) == \A i \in 1..Len(l) : l[i]["github_username"] # Absent

\* C11: the home view answers 200 for every result of
\* get_recent_contributors and get_recent_packages, empty lists included, and
\* recent_contributors and recent_packages of its context hold as many
\* items, in the same order, as the two functions returned.
C11_HomeShowsWhatWasReturned ==
    (IsHome /\ ResultOfRecent(inner.recent)) =>
        /\ resp.status = 200
        /\ ret.kind = "return"
        /\ Len(ret.value) = Len(inner.recent)
        /\ \A i \in 1..Len(ret.value) :
              \A f \in Fields : ret.value[i][f] = inner.recent[i][f]
        /\ resp.recent_packages = inner.packages

C11_Witness ==
    /\ IsHome /\ op.side = "" /\ resp.status = 200
    /\ Len(inner.recent) = 2
    /\ inner.recent[1] # inner.recent[2]
    /\ Len(resp.recent_packages) = 3

C11_WitnessEmpty ==
    /\ IsHome /\ op.side = "" /\ resp.status = 200
    /\ inner.fetch = "failed" /\ ret.value = <<>>
    /\ pnet.open = "URLError" /\ resp.recent_packages = <<>>

\* what a request shows when the remote end of contributors.yml is n
ShownFor(n) ==
    Home(GetRecentContributors(FetchContributorsYaml(NoURL, n), DefaultCount)).value

\* a step that is a request for the home page, its contributors fetched from
\* the remote end
HomeRequestStep == op'.name = "home" /\ op'.side # "return" /\ net' = net

\* C17: nothing is carried over between requests for the home page: every
\* request opens the contributors document once, and the contributors it
\* shows are those of that fetch alone, none when it failed, whatever the
\* requests before it fetched or showed.
C17_NothingCarriedOver ==
    [][HomeRequestStep =>
          /\ Occurrences(opened', DefaultURL) = 1
          /\ ret'.kind = "return"
          /\ ret'.value = ShownFor(net')
          /\ FetchOutcome(net') = "failed" => ret'.value = <<>>]_vars

\* the fetch of the request before failed, this one's succeeded and its
\* contributors are shown
C17_Witness ==
    /\ IsHome /\ op.side # "return"
    /\ inner.before = "failed" /\ inner.fetch = "ok"
    /\ Len(ret.value) = 2

\* the fetch of the request before succeeded, this one's failed and nothing
\* is shown
C17_WitnessFailedLater ==
    /\ IsHome /\ op.side # "return"
    /\ inner.before = "ok" /\ inner.fetch = "failed"
    /\ ret.value = <<>>
    /\ \E i \in 1..Len(net.doc.items) : AllValid(<<net.doc.items[i]>>)

(* ------------------- requests for the two index pages ------------------ *)

MaxPosts == 31

\* date - timedelta(days=k)
RECURSIVE SubDays(_, _)
SubDays(date, k) ==
    IF k < date[3] THEN <<date[1], date[2], date[3] - k>>
    ELSE LET y == IF date[2] = 1 THEN date[1] - 1 ELSE date[1]
             m == IF date[2] = 1 THEN 12 ELSE date[2] - 1
         IN  SubDays(<<y, m, DaysInMonth(y, m)>>, k - date[3])

\* date + timedelta(days=k)
RECURSIVE AddDays(_, _)
AddDays(date, k) ==
    IF date[3] + k <= DaysInMonth(date[1], date[2])
    THEN <<date[1], date[2], date[3] + k>>
    ELSE LET y == IF date[2] = 12 THEN date[1] + 1 ELSE date[1]
             m == IF date[2] = 12 THEN 1 ELSE date[2] + 1
         IN  AddDays(<<y, m, 1>>, k - (DaysInMonth(date[1], date[2]) - date[3] + 1))

\* the i-th blog post of create_dummy_posts
DummyBlogPost(id, i) ==
    Page(id, "blog", TRUE,
         SubDays(Today, 365 * ((i - 1) \div 10) + 30 * ((i - 1) % 12)), {})

\* the i-th event of create_dummy_posts: future for even i, past for odd i
DummyEvent(id, i) ==
    Page(id, "event", TRUE,
         IF i % 2 = 0 THEN AddDays(Today, 30 * i) ELSE SubDays(Today, 30 * i), {})

\* the pages manage.py create_dummy_posts --blog-posts nb --events ne makes
CreateDummyPosts(nb, ne) ==
    [i \in 1..(nb + ne) |->
        IF i <= nb THEN DummyBlogPost(i, i) ELSE DummyEvent(i, i - nb)]

\* some pages are unpublished afterwards
Unpublished(pages, ids) ==
    [i \in 1..Len(pages) |->
        IF i \in ids THEN [pages[i] EXCEPT !.live = FALSE] ELSE pages[i]]

DraftSets == {{}, {2}, {1, 13, 33}}

\* pages of one date
TiedPages ==
    << Page(1, "blog", TRUE, <<2024, 5, 1>>, {}),
       Page(2, "blog", TRUE, <<2024, 5, 1>>, {}),
       Page(3, "blog", TRUE, <<2025, 5, 1>>, {}),
       Page(4, "event", TRUE, <<2024, 5, 1>>, {}),
       Page(5, "event", TRUE, <<2024, 5, 1>>, {}) >>

Databases ==
    {Unpublished(CreateDummyPosts(n, n), d) : n \in 0..MaxPosts, d \in DraftSets}
        \cup {TiedPages}

\* request.GET.get('year')
YearParams ==
    { Absent, StrV(<<>>), StrV(<<"2", "0", "2", "5">>), StrV(<<"2", "0", "2", "4">>),
      StrV(<<"1", "9", "9", "9">>), StrV(<<"2", "0", "x", "4">>), StrV(<<" ", "2", "0", "2", "4">>),
      StrV(<<"^2">>) }

\* request.GET.get('page')
PageParams ==
    { Absent, StrV(<<>>), StrV(<<"x">>), StrV(<<"1">>), StrV(<<"2">>), StrV(<<"3">>), StrV(<<"0">>), StrV(<<"-", "1">>),
      StrV(<<"9", "9">>), StrV(<<" ", "2">>), StrV(<<"1", ".", "5">>), StrV(<<"^2">>) }

InitIndex ==
    /\ net = NoNet
    /\ pnet = NoNet
    /\ db \in Databases
    /\ Idle

\* a request is answered once; the views read the database and leave
\* nothing behind but the response
Respond(call, response) ==
    /\ resp = NoResp
    /\ op' = call
    /\ resp' = response
    /\ ret' = NoResult
    /\ opened' = <<>>
    /\ log' = <<>>
    /\ inner' = NoInner
    /\ UNCHANGED <<net, pnet, db>>

\* GET /blog/?year=<year>&page=<page>
BlogIndexCall ==
    \E year \in YearParams, page \in PageParams, ties \in {"asc", "desc"} :
        Respond([name |-> "blog_index", year |-> year, page |-> page],
                IndexView(db, "blog", BlogPerPage, year, page, ties))

\* GET /events/?year=<year>&page=<page>
EventsIndexCall ==
    \E year \in YearParams, page \in PageParams, ties \in {"asc", "desc"} :
        Respond([name |-> "events_index", year |-> year, page |-> page],
                IndexView(db, "event", EventsPerPage, year, page, ties))

NextIndex == BlogIndexCall \/ EventsIndexCall

SpecIndex == InitIndex /\ [][NextIndex]_vars

IsIndex == op.name \in {"blog_index", "events_index"}

\* posts per page of the view the latest request went to
PerPage == IF op.name = "blog_index" THEN 12 ELSE 15

\* the kind of page the view lists
Listed == IF op.name = "blog_index" THEN "blog" ELSE "event"

\* the year parameter made int() raise before the view came to paginate
YearStopsView == YearGiven(op.year) /\ ~IsInt(op.year.v)

\* the page parameter is an integer
PageIsInteger == op.page # Absent /\ IsInt(op.page.v)

\* C14: blog_index shows at most 12 posts per page and events_index at most
\* 15; a page parameter that is absent or no integer gives the first page, an
\* integer outside the existing pages the last page, one inside that page, so
\* no value of the page parameter gives an error.
C14_EveryPageValueServed ==
    (IsIndex /\ ~YearStopsView) =>
        LET first == (resp.number - 1) * PerPage + 1
            last == Min(resp.number * PerPage, Len(resp.listing))
        IN  /\ resp.status = 200
            /\ Len(resp.object_list) <= PerPage
            /\ resp.object_list = SubSeq(resp.listing, first, last)
            /\ resp.number \in 1..resp.num_pages
            /\ resp.listing # <<>> =>
                  /\ resp.object_list # <<>>
                  /\ (resp.num_pages - 1) * PerPage < Len(resp.listing)
                  /\ Len(resp.listing) <= resp.num_pages * PerPage
            /\ ~PageIsInteger => resp.number = 1
            /\ (PageIsInteger /\ PyInt(op.page.v) \in 1..resp.num_pages) =>
                  resp.number = PyInt(op.page.v)
            /\ (PageIsInteger /\ PyInt(op.page.v) \notin 1..resp.num_pages) =>
                  resp.number = resp.num_pages

C14_Witness ==
    /\ op.name = "events_index" /\ op.year = Absent
    /\ op.page = StrV(<<"9", "9">>)
    /\ Len(resp.listing) = 31
    /\ resp.number = 3 /\ Len(resp.object_list) = 1

C14_WitnessFirstPage ==
    /\ op.name = "blog_index" /\ op.page = StrV(<<"1", ".", "5">>)
    /\ Len(resp.listing) > 12
    /\ resp.number = 1 /\ Len(resp.object_list) = 12

\* the live pages of the listed kind, those of one year when year is given
LiveOf(year) ==
    {db[i] : i \in {j \in 1..Len(db) :
                      /\ db[j].kind = Listed /\ db[j].live
                      /\ year # 0 => db[j].date[1] = year}}

\* C15 as stated: with a year parameter that is a non-empty string of digits
\* the listing holds exactly the live posts dated in that year, with any
\* other year parameter or none all live posts, ordered by date, newest
\* first, in both cases.
C15_YearFilter ==
    IsIndex =>
        /\ resp.status = 200
        /\ \A i, j \in 1..Len(resp.listing) :
              i < j => /\ NotBefore(resp.listing[i].date, resp.listing[j].date)
                       /\ resp.listing[i] # resp.listing[j]
        /\ {resp.listing[i] : i \in 1..Len(resp.listing)} =
              LiveOf(IF YearGiven(op.year) THEN PyInt(op.year.v) ELSE 0)

(* ------------------- serve_blog_page, serve_event_page ---------------- *)

\* [:3]
RelatedLimit == 3

\* annotate(same_tags=Count('pk')) after filter(tags__in=page_tags): one
\* joined row for every tag p has in common with the served page
SameTags(p, page) == Cardinality(p.tags \cap page.tags)

\* the rows before q in ORDER BY same_tags DESC, date DESC
BeforeRelated(p, q, page, ties) ==
    \/ SameTags(p, page) > SameTags(q, page)
    \/ SameTags(p, page) = SameTags(q, page) /\ Before(p, q, ties)

RECURSIVE InsertRelated(_, _, _, _)
InsertRelated(s, p, page, ties) ==
    IF s = <<>> THEN <<p>>
    ELSE IF BeforeRelated(p, Head(s), page, ties) THEN <<p>> \o s
         ELSE <<Head(s)>> \o InsertRelated(Tail(s), p, page, ties)

RECURSIVE OrderedRelated(_, _, _, _)
OrderedRelated(done, todo, page, ties) ==
    IF todo = <<>> THEN done
    ELSE OrderedRelated(InsertRelated(done, Head(todo), page, ties),
                        Tail(todo), page, ties)

\* related posts ordered by date alone
OrderByDateOnly(pages, page, ties) == OrderByDateDesc(pages, ties)

\* .order_by('-same_tags', '-date')
OrderBySameTags(pages, page, ties) == OrderedRelated(<<>>, pages, page, ties)

\* the response of serve_blog_page (kind "blog") or serve_event_page (kind
\* "event") to the slug of a page
RelatedView(pages, kind, slug, ties) ==
    LET found == SelectSeq(Live(pages, kind), LAMBDA p : p.id = slug)
    IN  IF found = <<>>
        THEN \* get_object_or_404
             [status |-> 404, page |-> 0, related |-> <<>>]
        ELSE LET page == found[1]
                 others == SelectSeq(Live(pages, kind), LAMBDA p : p.id # page.id)
                 tagged ==
                     IF page.tags # {}
                     THEN Slice(OrderBySameTags(
                                    SelectSeq(others,
                                              LAMBDA p : SameTags(p, page) > 0),
                                    page, ties),
                                RelatedLimit)
                     ELSE <<>>
             IN  [status |-> 200, page |-> page.id,
                  related |-> IF tagged # <<>> THEN tagged
                              ELSE Slice(OrderByDateDesc(others, ties), RelatedLimit)]

(* ---------------------- requests for a single page -------------------- *)

MaxOthers == 5

\* the date and the tags of a live page
Shapes ==
    { [date |-> <<2024, 5, 1>>, tags |-> {}],
      [date |-> <<2025, 1, 10>>, tags |-> {"python"}],
      [date |-> <<2024, 5, 1>>, tags |-> {"python", "community"}],
      [date |-> <<2023, 3, 3>>, tags |-> {"community"}] }

OtherKind(kind) == IF kind = "blog" THEN "event" ELSE "blog"

\* pages of one kind, then a draft of that kind and a live page of the other
\* kind, both tagged
TaggedPages(kind, shapes) ==
    [i \in 1..Len(shapes) |-> Page(i, kind, TRUE, shapes[i].date, shapes[i].tags)]
        \o << Page(Len(shapes) + 1, kind, FALSE, <<2025, 2, 2>>, {"python"}),
              Page(Len(shapes) + 2, OtherKind(kind), TRUE, <<2025, 3, 3>>,
                   {"python", "community"}) >>

TaggedDatabases ==
    {TaggedPages(kind, s) : kind \in {"blog", "event"},
                            s \in SeqsUpTo(Shapes, MaxOthers)}

InitRelated ==
    /\ net = NoNet
    /\ pnet = NoNet
    /\ db \in TaggedDatabases
    /\ Idle

\* GET /blog/<slug>/
ServeBlogPageCall ==
    \E slug \in 1..Len(db), ties \in {"asc", "desc"} :
        Respond([name |-> "serve_blog_page", slug |-> slug],
                RelatedView(db, "blog", slug, ties))

\* GET /events/<slug>/
ServeEventPageCall ==
    \E slug \in 1..Len(db), ties \in {"asc", "desc"} :
        Respond([name |-> "serve_event_page", slug |-> slug],
                RelatedView(db, "event", slug, ties))

NextRelated == ServeBlogPageCall \/ ServeEventPageCall

SpecRelated == InitRelated /\ [][NextRelated]_vars

IsServe == op.name \in {"serve_blog_page", "serve_event_page"} /\ resp.status = 200

\* the page the latest request served
Served == db[op.slug]

\* the other live pages of the served page's kind
Others ==
    {db[i] : i \in {j \in 1..Len(db) :
                      db[j].kind = Served.kind /\ db[j].live /\ j # op.slug}}

\* those of them that have a tag in common with the served page
Sharing == {p \in Others : p.tags \cap Served.tags # {}}

Related == {resp.related[i] : i \in 1..Len(resp.related)}

\* p has more tags in common with the served page than q, or as many and is
\* not older
RanksNotBelow(p, q) ==
    \/ SameTags(p, Served) > SameTags(q, Served)
    \/ SameTags(p, Served) = SameTags(q, Served) /\ NotBefore(p.date, q.date)

\* related_posts is in the order of shared tags, then date
InTagOrder ==
    \A i, j \in 1..Len(resp.related) :
        i < j => RanksNotBelow(resp.related[i], resp.related[j])

\* related_posts is in the order of date, newest first
InDateOrder ==
    \A i, j \in 1..Len(resp.related) :
        i < j => NotBefore(resp.related[i].date, resp.related[j].date)

\* C16 as stated: with tags on the served page and another live post that
\* shares one, related_posts holds only posts sharing a tag, by number of
\* shared tags and then date, both descending; otherwise related_posts is
\* the other live posts by date descending.
C16_AsStated ==
    IsServe =>
        IF Served.tags # {} /\ Sharing # {}
        THEN /\ resp.related # <<>>
             /\ Related \subseteq Sharing
             /\ InTagOrder
        ELSE /\ Related = Others
             /\ Len(resp.related) = Cardinality(Others)
             /\ InDateOrder

\* C16, amended: related_posts holds at most three posts. With tags on the
\* served page and another live post that shares one, they are the first
\* three of the posts sharing a tag, by number of shared tags and then date,
\* both descending; otherwise the three newest of the other live posts, by
\* date descending.
C16_RelatedPosts ==
    IsServe =>
        /\ Len(resp.related) = Cardinality(Related)
        /\ IF Served.tags # {} /\ Sharing # {}
           THEN /\ Related \subseteq Sharing
                /\ Len(resp.related) = Min(3, Cardinality(Sharing))
                /\ InTagOrder
                /\ \A p \in Related, q \in Sharing \ Related : RanksNotBelow(p, q)
           ELSE /\ Related \subseteq Others
                /\ Len(resp.related) = Min(3, Cardinality(Others))
                /\ InDateOrder
                /\ \A p \in Related, q \in Others \ Related :
                      NotBefore(p.date, q.date)

\* a page with two tags is served; one post shares both and an older and a
\* newer one share one: the one sharing both comes first
C16_Witness ==
    /\ IsServe /\ op.name = "serve_blog_page"
    /\ Cardinality(Served.tags) = 2
    /\ Cardinality(Others \ Sharing) > 0
    /\ Len(resp.related) = 3
    /\ SameTags(resp.related[1], Served) = 2
    /\ SameTags(resp.related[2], Served) = 1
    /\ resp.related[2].date # resp.related[3].date
    /\ \E p \in Sharing : DateLess(resp.related[1].date, p.date)

\* no post shares a tag with the served event: the newest three of four
\* others are shown
C16_WitnessFallback ==
    /\ IsServe /\ op.name = "serve_event_page"
    /\ Served.tags # {} /\ Sharing = {}
    /\ Cardinality(Others) = 4
    /\ Len(resp.related) = 3

====
